---- MODULE Spec2Model ----
(***************************************************************************)
(* Mesh file-distribution engine of Desk-Share-Net:                        *)
(* src/src/network/file_transfer.rs (struct FileTransfer).                 *)
(*                                                                         *)
(* Scaling.  Bytes are small naturals.  A BLAKE3 digest is represented by  *)
(* the byte string it was computed from (the hash is treated as            *)
(* collision-free), so two digests are equal exactly when their inputs     *)
(* are.  ChunkSize stands for the 1 MiB chunk size and IndexBytes for the  *)
(* 8 bytes of usize::to_le_bytes, both scaled down.                        *)
(***************************************************************************)
EXTENDS Integers, Sequences, FiniteSets, TLC

VARIABLES
    shared_files,       \* DashMap<String, SharedFile>       (manifest catalog)
    file_chunks,        \* DashMap<String, FileChunk>        (chunk store)
    downloading_files,  \* HashMap<String, DownloadingFile>  (download sessions)
    peers_with_files,   \* HashMap<String, HashSet<String>>  (peer availability)
    active_transfers,   \* HashMap<String, TransferProgress> (progress registry)
    disk,               \* the file system: path -> content of the existing files
    assembled,          \* history: assemble_file calls per stored session object
    requested,          \* history: the chunk requests of the last download_file
                        \* call, in order: the peer asked, the chunk index and
                        \* the number of requests in flight once it was sent
    last,               \* history: the last operation, its outcome, the file
                        \* concerned and the chunk index taken
    at_lock,            \* the RwLock around active_transfers: its writer and readers
    arrival,            \* the handle_chunk_received call in progress, step by step
    observer,           \* each get_transfer_progress caller: position, vector returned
    stable,             \* history: active_transfers as of the last completed update
    retry,              \* a retry_with_backoff call: arguments, locals, result
    recovery,           \* the last recovery_strategy call: error and strategy
    pending_messages,   \* SignalingServer: HashMap<String, Vec<SignalingMessage>>
    channel,            \* SignalingServer: the messages queued between message_tx
                        \* and message_rx
    sender,             \* each caller of a send_* method: position, message, result
    task,               \* each FileTransfer call in progress, as the locks see
                        \* it: operation, position
    sent_since,         \* history: the messages send_message stored for each
                        \* peer since the last get_pending_messages for it
    delivered           \* the last get_pending_messages call: peer and vector
                        \* returned

transferVars == <<shared_files, file_chunks, downloading_files, peers_with_files,
                  active_transfers, disk, assembled, requested, last>>

observeVars == <<at_lock, arrival, observer, stable>>

errorVars == <<retry, recovery>>

signalVars == <<pending_messages, channel, sender>>

lockVars == <<task>>

deliveryVars == <<sent_since, delivered>>

vars == <<shared_files, file_chunks, downloading_files, peers_with_files,
          active_transfers, disk, assembled, requested, last,
          at_lock, arrival, observer, stable, retry, recovery,
          pending_messages, channel, sender, task, sent_since, delivered>>

----------------------------------------------------------------------------
(* Bounds and scaled program constants *)

ChunkSize == 2
IndexBytes == 1
MaxIndex == 3
MaxAssembled == 2
MaxFiles == 2

----------------------------------------------------------------------------
(* Generic helpers *)

Min(S) == CHOOSE x \in S : \A y \in S : x <= y

Put(m, k, v) == [x \in (DOMAIN m) \cup {k} |-> IF x = k THEN v ELSE m[x]]

PutAll(m, n) == [x \in (DOMAIN m) \cup (DOMAIN n) |-> IF x \in DOMAIN n THEN n[x] ELSE m[x]]

Range(s) == {s[k] : k \in DOMAIN s}

RECURSIVE Repeat(_, _)
Repeat(s, n) == IF n = 0 THEN <<>> ELSE s \o Repeat(s, n - 1)

RECURSIVE Concat(_)
Concat(ss) == IF ss = <<>> THEN <<>> ELSE Head(ss) \o Concat(Tail(ss))

\* The orders in which a HashMap with key set S can be iterated.
Orders(S) == {o \in [1..Cardinality(S) -> S] : \A a, b \in DOMAIN o : o[a] = o[b] => a = b}

----------------------------------------------------------------------------
(* Inputs *)

\* share_file callers: the peer id passed in and the system time of the call.
Local == [peer_id |-> "local", now |-> 1]
Remote == [peer_id |-> "10.0.0.7", now |-> 2]

\* Files present when the program starts.  b.bin is the first chunk of
\* a.bin, and its file digest is the digest of a.bin's chunk at index 2.
InitialDisk ==
    [p \in {"a.bin", "b.bin", "e.bin"} |->
        CASE p = "a.bin" -> <<2, 1, 0, 0, 1>>
          [] p = "b.bin" -> <<2, 1>>
          [] p = "e.bin" -> <<>>]

\* The share_file calls made: every file by the local peer, a.bin also on
\* behalf of a device later on, and a path that cannot be read.
ShareCalls ==
    {<<"a.bin", Local>>, <<"a.bin", Remote>>, <<"b.bin", Local>>, <<"e.bin", Local>>,
     <<"missing.bin", Local>>}

\* Output paths, distinct from the shared files.
OutPaths == {"out.bin"}

\* Path::file_name of the paths above: none has a directory part.
FileName(path) == path

\* A payload that is no chunk of any file above.
Corrupt == <<1, 1>>

NoHash == <<-1>>

----------------------------------------------------------------------------
(* Hashing and chunking *)

\* usize::to_le_bytes, scaled to IndexBytes bytes.
ToLeBytes(index) == [k \in 1..IndexBytes |-> IF k = 1 THEN index ELSE 0]

calculate_file_hash(data) == data

\* Mutant of lines 310-315: the index is not fed to the hasher.
calculate_chunk_hash_NoIndex(index, data) == data

calculate_chunk_hash(index, data) == ToLeBytes(index) \o data

\* Mutant of the split of line 84: a short last chunk is dropped.
Chunks_WholeOnly(data) ==
    [k \in 1..(Len(data) \div ChunkSize) |->
        SubSeq(data, (k - 1) * ChunkSize + 1, k * ChunkSize)]

\* <[u8]>::chunks(chunk_size)
Chunks(data) ==
    [k \in 1..((Len(data) + ChunkSize - 1) \div ChunkSize) |->
        SubSeq(data, (k - 1) * ChunkSize + 1,
               IF k * ChunkSize < Len(data) THEN k * ChunkSize ELSE Len(data))]

\* (bytes as f64 / size as f64) * 100.0, rounded down; -1 stands for NaN (0/0).
Percentage(bytes, size) == IF size = 0 THEN -1 ELSE (bytes * 100) \div size

----------------------------------------------------------------------------
(* Initial state: FileTransfer::new *)

Empty == [x \in {} |-> 0]

\* The callers of get_transfer_progress and of the signaling send methods.
Observers == {"o1", "o2"}

Callers == {"c1", "c2"}

\* The tasks that call the FileTransfer concurrently.
Tasks == {"t1", "t2", "t3"}

\* No FileTransfer call in progress.
NoTasks == task = [t \in Tasks |-> [pc |-> "idle"]]

\* The peers messages are addressed to when the pending lists are observed.
Addressees == {"peer2", "peer3"}

\* No get_pending_messages call made, no message stored.
NoDeliveries ==
    /\ sent_since = [p \in Addressees |-> <<>>]
    /\ delivered = [peer_id |-> "none", messages |-> <<>>, turn |-> 0]

\* No progress reader and no chunk handler at work.
NoObservers ==
    /\ at_lock = [writer |-> FALSE, readers |-> {}]
    /\ arrival = [pc |-> "idle"]
    /\ observer = [o \in Observers |-> [pc |-> "idle", returned |-> Empty]]
    /\ stable = Empty

\* No retry_with_backoff call and no recovery_strategy call made.
NoErrors ==
    /\ retry = [pc |-> "idle"]
    /\ recovery = [error |-> "none", strategy |-> [kind |-> "none"]]

\* SignalingServer::new (signalling.rs:152-167): nothing pending, nothing queued.
NoSignals ==
    /\ pending_messages = Empty
    /\ channel = <<>>
    /\ sender = [c \in Callers |-> [pc |-> "idle"]]

Init ==
    /\ shared_files = Empty
    /\ file_chunks = Empty
    /\ downloading_files = Empty
    /\ peers_with_files = Empty
    /\ active_transfers = Empty
    /\ disk = InitialDisk
    /\ assembled = Empty
    /\ requested = <<>>
    /\ last = [op |-> "new", res |-> "ok", d |-> NoHash, i |-> -1]
    /\ NoObservers
    /\ NoErrors
    /\ NoSignals
    /\ NoTasks
    /\ NoDeliveries

----------------------------------------------------------------------------
(* share_file *)

\* The SharedFile record built by share_file (lines 87-101).
SharedFileOf(path, data, caller) ==
    [hash |-> calculate_file_hash(data),
     name |-> FileName(path),
     size |-> Len(data),
     chunks |-> [k \in DOMAIN Chunks(data) |-> calculate_chunk_hash(k - 1, Chunks(data)[k])],
     chunk_size |-> ChunkSize,
     total_chunks |-> Len(Chunks(data)),
     peer_id |-> caller.peer_id,
     timestamp |-> caller.now]

\* Mutant of lines 104-112: the records carry a 1-based index.
ChunkRecords_OneBased(data) ==
    [h \in {calculate_chunk_hash(k - 1, Chunks(data)[k]) : k \in DOMAIN Chunks(data)} |->
        LET k == CHOOSE j \in DOMAIN Chunks(data) :
                     calculate_chunk_hash(j - 1, Chunks(data)[j]) = h
        IN [chunk_hash |-> h,
            data |-> Chunks(data)[k],
            index |-> k,
            file_hash |-> calculate_file_hash(data)]]

\* The FileChunk records share_file inserts, keyed by chunk hash (lines 104-112).
ChunkRecords(data) ==
    [h \in {calculate_chunk_hash(k - 1, Chunks(data)[k]) : k \in DOMAIN Chunks(data)} |->
        LET k == CHOOSE j \in DOMAIN Chunks(data) :
                     calculate_chunk_hash(j - 1, Chunks(data)[j]) = h
        IN [chunk_hash |-> h,
            data |-> Chunks(data)[k],
            index |-> k - 1,
            file_hash |-> calculate_file_hash(data)]]

\* The progress entry share_file registers (lines 118-125).
UploadProgress(file) ==
    [file_name |-> file.name,
     file_hash |-> file.hash,
     bytes_transferred |-> 0,
     total_bytes |-> file.size,
     percentage |-> 0,
     status |-> "Completed"]

\* Mutant of line 297: a manifest whose digest is taken is stored beside it.
announce_file_Beside(catalog, file) ==
    Put(catalog,
        IF file.hash \in DOMAIN catalog THEN Append(file.hash, 9) ELSE file.hash,
        file)

\* announce_file: DashMap::insert replaces an entry with the same key.
announce_file(catalog, file) == Put(catalog, file.hash, file)

\* Mutant of the order of lines 79 and 118-127: the progress entry is
\* stored before the file is read, under the path when the read fails.
share_file_EntryBeforeRead(path, caller) ==
    IF path \notin DOMAIN disk
    THEN /\ active_transfers' =
                Put(active_transfers, <<>>,
                    [file_name |-> FileName(path), file_hash |-> <<>>,
                     bytes_transferred |-> 0, total_bytes |-> 0,
                     percentage |-> 0, status |-> "Completed"])
         /\ last' = [op |-> "share_file", res |-> "read_error", d |-> NoHash, i |-> -1]
         /\ UNCHANGED <<shared_files, file_chunks, downloading_files,
                        peers_with_files, disk, assembled, requested>>
    ELSE LET data == disk[path]
             file == SharedFileOf(path, data, caller)
         IN /\ file_chunks' = PutAll(file_chunks, ChunkRecords(data))
            /\ shared_files' = announce_file(shared_files, file)
            /\ active_transfers' = Put(active_transfers, file.hash, UploadProgress(file))
            /\ last' = [op |-> "share_file", res |-> "ok", d |-> file.hash, i |-> -1]
            /\ UNCHANGED <<downloading_files, peers_with_files, disk, assembled, requested>>

share_file(path, caller) ==
    IF path \notin DOMAIN disk
    THEN \* tokio::fs::read fails: the error is returned before any state is touched
         /\ last' = [op |-> "share_file", res |-> "read_error", d |-> NoHash, i |-> -1]
         /\ UNCHANGED <<shared_files, file_chunks, downloading_files,
                        peers_with_files, active_transfers, disk, assembled, requested>>
    ELSE LET data == disk[path]
             file == SharedFileOf(path, data, caller)
         IN /\ file_chunks' = PutAll(file_chunks, ChunkRecords(data))
            /\ shared_files' = announce_file(shared_files, file)
            /\ active_transfers' = Put(active_transfers, file.hash, UploadProgress(file))
            /\ last' = [op |-> "share_file", res |-> "ok", d |-> file.hash, i |-> -1]
            /\ UNCHANGED <<downloading_files, peers_with_files, disk, assembled, requested>>

----------------------------------------------------------------------------
(* handle_chunk_received and assemble_file, as functions of the state they  *)
(* touch: st.df (downloading_files), st.at (active_transfers), st.disk,     *)
(* st.asm (assembled), st.err (an error was returned), st.hit (the session  *)
(* the chunk was credited to).  write_ok is the outcome of tokio::fs::write *)
(* in this call.                                                            *)

\* The bytes assemble_file collects (lines 281-287): for every index the
\* chunk store is asked for the entry under the session's FILE hash.
AssembledData(downloading) ==
    IF downloading.file_hash \in DOMAIN file_chunks
    THEN Repeat(file_chunks[downloading.file_hash].data, downloading.chunks_expected)
    ELSE <<>>

\* assemble_file: write the collected bytes; a failed write returns the error.
assemble_file(st, downloading, write_ok) ==
    LET counted == [st EXCEPT !.asm[downloading.file_hash] =
                        IF @ < MaxAssembled THEN @ + 1 ELSE @]
    IN IF write_ok
       THEN [counted EXCEPT !.disk = Put(@, downloading.output_path, AssembledData(downloading))]
       ELSE [counted EXCEPT !.err = TRUE]

\* Mutants of the duplicate test of line 250: no test at all, and a test of
\* the neighbouring index.
AlreadyReceived_Never(downloading, chunk_index) == FALSE

AlreadyReceived_OffByOne(downloading, chunk_index) ==
    chunk_index + 1 \in downloading.chunks_received

\* line 250: the session already has this index.
AlreadyReceived(downloading, chunk_index) ==
    chunk_index \in downloading.chunks_received

\* Mutant of the test of line 256: the digest is not compared.
ChunkBelongs_IndexOnly(file, chunk_hash, chunk_index, data) ==
    chunk_index < Len(file.chunks)

\* line 256: the chunk belongs to the file; the payload is not looked at.
ChunkBelongs(file, chunk_hash, chunk_index, data) ==
    /\ chunk_index < Len(file.chunks)
    /\ file.chunks[chunk_index + 1] = chunk_hash

\* Mutant of the completion test of line 265: complete once the chunk with
\* the highest index has arrived.
AllReceived_LastIndex(downloading) ==
    downloading.chunks_expected - 1 \in downloading.chunks_received

\* line 265: every expected chunk has been received.
AllReceived(downloading) ==
    Cardinality(downloading.chunks_received) = downloading.chunks_expected

\* The session (if any) the loop of lines 248-274 stops at, iterating in `order`.
Eligible(st, order, chunk_hash, chunk_index, data) ==
    {k \in DOMAIN order :
        /\ ~AlreadyReceived(st.df[order[k]], chunk_index)
        /\ order[k] \in DOMAIN shared_files
        /\ ChunkBelongs(shared_files[order[k]], chunk_hash, chunk_index, data)}

\* lines 257-269 for the session stored under d.
AcceptChunk(st, d, chunk_index, data, write_ok) ==
    LET downloading == [st.df[d] EXCEPT
                           !.chunks_received = @ \cup {chunk_index},
                           !.bytes_received = @ + Len(data)]
        st1 == [st EXCEPT !.df[d] = downloading, !.hit = d]
    IN IF d \notin DOMAIN st.at
       THEN st1
       ELSE LET st2 == [st1 EXCEPT
                           !.at[d].bytes_transferred = downloading.bytes_received,
                           !.at[d].percentage =
                               Percentage(downloading.bytes_received, shared_files[d].size)]
            IN IF AllReceived(downloading)
               THEN assemble_file([st2 EXCEPT !.at[d].status = "Completed"],
                                  downloading, write_ok)
               ELSE st2

handle_chunk_received(st, order, chunk_hash, chunk_index, data, write_ok) ==
    LET elig == Eligible(st, order, chunk_hash, chunk_index, data)
    IN IF elig = {}
       THEN [st EXCEPT !.hit = NoHash]
       ELSE AcceptChunk(st, order[Min(elig)], chunk_index, data, write_ok)

\* The state record of the current state.
Now == [df |-> downloading_files, at |-> active_transfers, disk |-> disk,
        asm |-> assembled, err |-> FALSE, hit |-> NoHash, req |-> <<>>, out |-> 0]

Commit(st) ==
    /\ downloading_files' = st.df
    /\ active_transfers' = st.at
    /\ disk' = st.disk
    /\ assembled' = st.asm

----------------------------------------------------------------------------
(* download_file, request_chunks, request_chunk_from_peer *)

\* The session download_file stores (lines 135-142).
NewDownload(file_hash, file, output_path) ==
    [file_hash |-> file_hash,
     chunks_received |-> {},
     chunks_expected |-> file.total_chunks,
     peers |-> {},
     output_path |-> output_path,
     bytes_received |-> 0]

\* The progress entry download_file registers (lines 147-154).
DownloadProgress(file_hash, file) ==
    [file_name |-> file.name,
     file_hash |-> file_hash,
     bytes_transferred |-> 0,
     total_bytes |-> file.size,
     percentage |-> 0,
     status |-> "InProgress"]

\* request_chunk_from_peer: the transport is simulated by the local chunk store.
request_chunk_from_peer(st, order, peer_id, chunk_hash, chunk_index, write_ok) ==
    IF chunk_hash \in DOMAIN file_chunks
    THEN handle_chunk_received(st, order, chunk_hash, chunk_index,
                               file_chunks[chunk_hash].data, write_ok)
    ELSE st

\* The peer the inner loop of lines 208-212 stops at for the k-th chunk:
\* the loop breaks after its first element, and the HashSet, which is not
\* modified during the call, yields the same first element every time.
PeerFor(file_peers, first_peer, k) == first_peer

\* The loop of lines 206-213 from the k-th chunk on; an error ends the loop.
\* first_peer is the element the iteration of file_peers starts with.  Each
\* request is awaited (line 210) before the loop goes on: st.out, the number
\* of requests in flight, is back to its value when the call returns.
RECURSIVE RequestFrom(_, _, _, _, _, _, _)
RequestFrom(st, order, file, file_peers, first_peer, k, write_ok) ==
    IF k > Len(file.chunks) \/ st.err \/ file_peers = {}
    THEN st
    ELSE LET peer_id == PeerFor(file_peers, first_peer, k)
             sent == [st EXCEPT
                         !.out = @ + 1,
                         !.req = Append(@, [peer_id |-> peer_id,
                                            chunk_index |-> k - 1,
                                            in_flight |-> st.out + 1])]
             returned == request_chunk_from_peer(sent, order, peer_id,
                                                 file.chunks[k], k - 1, write_ok)
         IN RequestFrom([returned EXCEPT !.out = @ - 1],
                        order, file, file_peers, first_peer, k + 1, write_ok)

\* Mutant of lines 203-204: the chunks are requested whether or not a peer
\* is listed for the file.
request_chunks_NoPeerNeeded(st, order, file_hash, first_peer, write_ok) ==
    IF file_hash \in DOMAIN shared_files
    THEN RequestFrom(st, order, shared_files[file_hash], {first_peer},
                     first_peer, 1, write_ok)
    ELSE st

request_chunks(st, order, file_hash, first_peer, write_ok) ==
    IF file_hash \in DOMAIN shared_files /\ file_hash \in DOMAIN peers_with_files
    THEN RequestFrom(st, order, shared_files[file_hash], peers_with_files[file_hash],
                     first_peer, 1, write_ok)
    ELSE st

\* The session map and progress map after lines 144 and 156.
StartDownload(st, file_hash, output_path) ==
    [st EXCEPT
        !.df = Put(@, file_hash, NewDownload(file_hash, shared_files[file_hash], output_path)),
        !.at = Put(@, file_hash, DownloadProgress(file_hash, shared_files[file_hash])),
        !.asm = Put(@, file_hash, 0)]

download_file(file_hash, output_path, order, first_peer, write_ok) ==
    IF file_hash \notin DOMAIN shared_files
    THEN \* no manifest: nothing is done and Ok(()) is returned
         /\ last' = [op |-> "download_file", res |-> "ok_unknown", d |-> NoHash, i |-> -1]
         /\ requested' = <<>>
         /\ UNCHANGED <<shared_files, file_chunks, downloading_files,
                        peers_with_files, active_transfers, disk, assembled>>
    ELSE LET st == request_chunks(StartDownload(Now, file_hash, output_path),
                                  order, file_hash, first_peer, write_ok)
         IN /\ Commit(st)
            /\ requested' = st.req
            /\ last' = [op |-> "download_file",
                        res |-> IF st.err THEN "error" ELSE "ok",
                        d |-> file_hash, i |-> -1]
            /\ UNCHANGED <<shared_files, file_chunks, peers_with_files>>

----------------------------------------------------------------------------
(* A chunk delivered by the transport: handle_chunk_received *)

\* Some session of a file with this chunk at this index already has the index.
IsDuplicate(chunk_hash, chunk_index, data) ==
    \E d \in DOMAIN downloading_files :
        /\ d \in DOMAIN shared_files
        /\ ChunkBelongs(shared_files[d], chunk_hash, chunk_index, data)
        /\ AlreadyReceived(downloading_files[d], chunk_index)

ChunkOutcome(st, chunk_hash, chunk_index, data) ==
    LET bad == IF calculate_chunk_hash(chunk_index, data) = chunk_hash THEN "" ELSE "_bad"
    IN CASE st.hit = NoHash /\ IsDuplicate(chunk_hash, chunk_index, data) -> "duplicate"
         [] st.hit = NoHash -> "ignored"
         [] st.err -> "error" \o bad
         [] st.asm # assembled -> "completed" \o bad
         [] OTHER -> "accepted" \o bad

chunk_received(chunk_hash, chunk_index, data, order, write_ok) ==
    LET st == handle_chunk_received(Now, order, chunk_hash, chunk_index, data, write_ok)
    IN /\ Commit(st)
       /\ last' = [op |-> "chunk_received",
                   res |-> ChunkOutcome(st, chunk_hash, chunk_index, data),
                   d |-> st.hit,
                   i |-> IF st.hit = NoHash THEN -1 ELSE chunk_index]
       /\ UNCHANGED <<shared_files, file_chunks, peers_with_files, requested>>

----------------------------------------------------------------------------
(* Inputs of the operations *)

FileHashes == {calculate_file_hash(InitialDisk[p]) : p \in DOMAIN InitialDisk}

UnknownHash == <<9>>

\* The chunk hashes of the manifests in the catalog, and one of no manifest.
ChunkLabels ==
    UNION {Range(shared_files[d].chunks) : d \in DOMAIN shared_files}
        \cup {calculate_chunk_hash(0, Corrupt)}

\* The payloads delivered under a label: the stored chunk's bytes, or other bytes.
Payloads(chunk_hash) ==
    (IF chunk_hash \in DOMAIN file_chunks THEN {file_chunks[chunk_hash].data} ELSE {})
        \cup {Corrupt}

\* The catalog is kept to MaxFiles manifests.
CatalogHasRoom(path) ==
    IF path \in DOMAIN disk /\ calculate_file_hash(disk[path]) \notin DOMAIN shared_files
    THEN Cardinality(DOMAIN shared_files) < MaxFiles
    ELSE TRUE

ShareFile ==
    /\ \E call \in ShareCalls :
           CatalogHasRoom(call[1]) /\ share_file(call[1], call[2])
    /\ UNCHANGED <<observeVars, errorVars, signalVars, lockVars, deliveryVars>>

\* The iteration orders of a session map with key set S and the outcomes of
\* the write, when they play a part in the call; one of each when they do not.
IterationOrders(S, used) ==
    IF used THEN Orders(S) ELSE {CHOOSE o \in Orders(S) : TRUE}

WriteOutcomes(used) == IF used THEN BOOLEAN ELSE {TRUE}

\* download_file delivers chunks only when a peer is listed for the file.
HasPeers(file_hash) ==
    /\ file_hash \in DOMAIN peers_with_files
    /\ peers_with_files[file_hash] # {}

\* The elements the iteration of the peer set of the file can start with.
FirstPeers(file_hash) ==
    IF HasPeers(file_hash) THEN peers_with_files[file_hash] ELSE {"none"}

\* The sessions that can take the chunk.
Takers(chunk_hash, chunk_index, data) ==
    {d \in DOMAIN downloading_files :
        /\ ~AlreadyReceived(downloading_files[d], chunk_index)
        /\ d \in DOMAIN shared_files
        /\ ChunkBelongs(shared_files[d], chunk_hash, chunk_index, data)}

DownloadFile ==
    /\ \E file_hash \in FileHashes \cup {UnknownHash}, output_path \in OutPaths :
           \E order \in IterationOrders(DOMAIN downloading_files \cup {file_hash},
                                        HasPeers(file_hash)),
              first_peer \in FirstPeers(file_hash),
              write_ok \in WriteOutcomes(HasPeers(file_hash)) :
               download_file(file_hash, output_path, order, first_peer, write_ok)
    /\ UNCHANGED <<observeVars, errorVars, signalVars, lockVars, deliveryVars>>

ChunkReceived ==
    /\ \E chunk_hash \in ChunkLabels, chunk_index \in 0..MaxIndex :
           \E data \in Payloads(chunk_hash) :
               \E order \in IterationOrders(DOMAIN downloading_files,
                                            Takers(chunk_hash, chunk_index, data) # {}),
                  write_ok \in WriteOutcomes(Takers(chunk_hash, chunk_index, data) # {}) :
                   chunk_received(chunk_hash, chunk_index, data, order, write_ok)
    /\ UNCHANGED <<observeVars, errorVars, signalVars, lockVars, deliveryVars>>

Next == ShareFile \/ DownloadFile \/ ChunkReceived

Spec == Init /\ [][Next]_vars

----------------------------------------------------------------------------
(* Vocabulary of the properties *)

\* The bytes whose file digest is d, d being the digest of a file of InitialDisk.
SharedBytes(d) ==
    CHOOSE data \in {InitialDisk[p] : p \in DOMAIN InitialDisk} :
        calculate_file_hash(data) = d

\* The last operation was a chunk arrival that made its session complete:
\* assemble_file ran and its write succeeded.
JustAssembled ==
    /\ last.op = "chunk_received"
    /\ last.res \in {"completed", "completed_bad"}

\* The chunk store's bytes under the manifest's digest of every index, in order.
ByChunkDigests(file) ==
    Concat([k \in DOMAIN file.chunks |->
               IF file.chunks[k] \in DOMAIN file_chunks
               THEN file_chunks[file.chunks[k]].data
               ELSE <<>>])

----------------------------------------------------------------------------
(* C1 .. C3: what a completed download leaves at output_path *)

\* C1: round trip.  When a download started after share_file completes (its
\* last valid chunk has arrived), the output file holds exactly the shared
\* bytes, so its digest is the digest share_file returned.
C1_RoundTrip ==
    (last.op = "chunk_received" /\ last.res = "completed") =>
        LET downloading == downloading_files[last.d]
        IN /\ downloading.output_path \in DOMAIN disk
           /\ disk[downloading.output_path] = SharedBytes(last.d)
           /\ calculate_file_hash(disk[downloading.output_path]) = last.d

\* C2: assembly writes the concatenation, in index order, of the chunk store
\* bytes stored under the manifest's digest of each index.
C2_AssemblyByChunkDigest ==
    JustAssembled =>
        LET downloading == downloading_files[last.d]
        IN /\ downloading.output_path \in DOMAIN disk
           /\ disk[downloading.output_path] = ByChunkDigests(shared_files[last.d])

\* C3: after assembly the status is Completed only if the digest recomputed
\* over the output equals the file digest, and Failed otherwise.
C3_WholeFileDigestChecked ==
    (last.op = "chunk_received" /\ last.res = "completed") =>
        LET downloading == downloading_files[last.d]
            output == disk[downloading.output_path]
        IN active_transfers[last.d].status =
               IF calculate_file_hash(output) = downloading.file_hash
               THEN "Completed" ELSE "Failed"

----------------------------------------------------------------------------
(* C4 .. C10: the download session under chunk arrivals *)

\* C4: assemble_file has run for a stored session only if the session has
\* all its chunks (chunks_received.len() == chunks_expected), and it has run
\* at most once for it: no chunk arrival after the assembly runs it again.
\* (download_file stores a new session object, whose count starts at 0.)
C4_AssembledOnceWhenComplete ==
    \A d \in DOMAIN downloading_files :
        /\ assembled[d] <= 1
        /\ assembled[d] >= 1 =>
               Cardinality(downloading_files[d].chunks_received)
                   = downloading_files[d].chunks_expected

\* A chunk arrived for the only session after that session was assembled.
C4_Witness ==
    /\ last.op = "chunk_received"
    /\ last.res = "duplicate"
    /\ \E d \in DOMAIN downloading_files :
           DOMAIN downloading_files = {d} /\ assembled[d] = 1

\* C5: the entry of a download is terminal once Completed or Failed: from the
\* state in which the last chunk of a download has just made it Completed,
\* no step sets its status back to InProgress or Pending, lowers
\* bytes_transferred, or takes chunks or bytes away from its session.
C5_TerminalStatusKept ==
    [][\A d \in DOMAIN downloading_files :
           (/\ active_transfers[d].status \in {"Completed", "Failed"}
            /\ last.op = "chunk_received"
            /\ last.res = "completed"
            /\ last.d = d) =>
               /\ active_transfers'[d].status \in {"Completed", "Failed"}
               /\ active_transfers'[d].bytes_transferred
                      >= active_transfers[d].bytes_transferred
               /\ downloading_files[d].chunks_received
                      \subseteq downloading_files'[d].chunks_received
               /\ downloading_files'[d].bytes_received
                      >= downloading_files[d].bytes_received]_vars

\* C6: download_file for a digest whose session is in progress is a no-op:
\* the session and the progress entry of the digest are left as they were.
C6_RedownloadIsNoOp ==
    [][\A d \in DOMAIN downloading_files :
           (/\ last'.op = "download_file"
            /\ last'.d = d
            /\ active_transfers[d].status = "InProgress") =>
               /\ downloading_files'[d] = downloading_files[d]
               /\ active_transfers'[d] = active_transfers[d]]_vars

\* C7: download_file for a digest with no manifest returns an error and
\* creates neither a session nor a progress entry.
C7_ManifestNotFound ==
    [][(last'.op = "download_file" /\ last'.d = NoHash) =>
           /\ last'.res = "error"
           /\ downloading_files' = downloading_files
           /\ active_transfers' = active_transfers]_vars

\* C8: a delivery whose bytes do not hash to the manifest's digest of the
\* index (the outcomes marked _bad: the payload does not hash to the label
\* it came with) changes no session and no progress entry.
C8_OnlyVerifiedChunksAccepted ==
    [][(/\ last'.op = "chunk_received"
        /\ last'.res \in {"accepted_bad", "completed_bad", "error_bad"}) =>
           /\ downloading_files' = downloading_files
           /\ active_transfers' = active_transfers]_vars

\* C9: a chunk arrival leaves every session that already has the index, and
\* that session's progress entry and assembly count, exactly as they were;
\* an arrival that no session takes changes no session and no entry.  (The
\* handler holds the write lock of downloading_files from its first to its
\* last line, so concurrent deliveries run one after the other.)
C9_DuplicateIgnored ==
    [][last'.op = "chunk_received" =>
           IF last'.d = NoHash
           THEN /\ downloading_files' = downloading_files
                /\ active_transfers' = active_transfers
                /\ disk' = disk
           ELSE \A d \in DOMAIN downloading_files :
                    last'.i \in downloading_files[d].chunks_received =>
                        /\ downloading_files'[d] = downloading_files[d]
                        /\ active_transfers'[d] = active_transfers[d]
                        /\ assembled'[d] = assembled[d]]_vars

\* A chunk was delivered for an index that a session of its file already had.
C9_Witness ==
    /\ last.op = "chunk_received"
    /\ last.res = "duplicate"
    /\ \E d \in DOMAIN downloading_files :
           /\ downloading_files[d].chunks_received # {}
           /\ downloading_files[d].bytes_received > 0

\* The progress entry of a download of `file` whose chunks have all arrived.
FinalProgress(file) ==
    [file_name |-> file.name,
     file_hash |-> file.hash,
     bytes_transferred |-> file.size,
     total_bytes |-> file.size,
     percentage |-> 100,
     status |-> "Completed"]

\* C10: the effect of a valid chunk delivery on the session that takes it
\* does not depend on which chunks arrived before it: the index joins
\* chunks_received, the chunk's size is added to bytes_received and copied
\* to the progress entry, and an InProgress entry becomes Completed exactly
\* when the index was the last one missing, whatever its position.  Every
\* arrival order of the N chunks therefore ends with the same session, the
\* same progress entry and the same assembled output.
C10_ArrivalOrderIrrelevant ==
    [][(/\ last'.op = "chunk_received"
        /\ last'.res \in {"accepted", "completed", "error"}) =>
           LET d == last'.d
               before == downloading_files[d]
               after == downloading_files'[d]
               file == shared_files[d]
               every == 0..(file.total_chunks - 1)
           IN /\ after.chunks_received = before.chunks_received \cup {last'.i}
              /\ after.bytes_received =
                     before.bytes_received + Len(Chunks(SharedBytes(d))[last'.i + 1])
              /\ active_transfers'[d].bytes_transferred = after.bytes_received
              /\ active_transfers[d].status = "InProgress" =>
                     active_transfers'[d].status =
                         IF after.chunks_received = every
                         THEN "Completed" ELSE "InProgress"
              /\ (/\ active_transfers[d].status = "InProgress"
                  /\ after.chunks_received = every
                  /\ after.bytes_received = file.size) =>
                     active_transfers'[d] = FinalProgress(file)
              /\ last'.res = "completed" =>
                     disk'[after.output_path] = AssembledData(after)]_vars

\* A three-chunk download completed with index 0 arriving last.
C10_Witness ==
    /\ last.op = "chunk_received"
    /\ last.res = "completed"
    /\ last.i = 0
    /\ downloading_files[last.d].chunks_received = {0, 1, 2}
    /\ downloading_files[last.d].bytes_received = shared_files[last.d].size
    /\ active_transfers[last.d] = FinalProgress(shared_files[last.d])

----------------------------------------------------------------------------
(* C11: the progress entry at completion *)

\* C11: when the last missing chunk of a download is accepted, the progress
\* entry of the digest has bytes_transferred = total_bytes = the manifest's
\* size, percentage 100 and status Completed.
C11_CompleteMeansHundredPercent ==
    [][(/\ last'.op = "chunk_received"
        /\ last'.res \in {"completed", "completed_bad", "error", "error_bad"}) =>
           LET entry == active_transfers'[last'.d]
           IN /\ entry.bytes_transferred = entry.total_bytes
              /\ entry.total_bytes = shared_files[last'.d].size
              /\ entry.percentage = 100
              /\ entry.status = "Completed"]_vars

----------------------------------------------------------------------------
(* share_file over every content up to MaxLen bytes: one readable file,     *)
(* whose content is chosen at the start, shared by either caller.           *)

MaxLen == 5
MaxByte == 2

RECURSIVE SeqsUpTo(_, _)
SeqsUpTo(S, n) ==
    IF n = 0 THEN {<<>>}
    ELSE LET shorter == SeqsUpTo(S, n - 1)
         IN shorter \cup {Append(s, b) : s \in {t \in shorter : Len(t) = n - 1}, b \in S}

Contents == SeqsUpTo(0..MaxByte, MaxLen)

InitShare ==
    /\ \E data \in Contents : disk = [p \in {"f.bin"} |-> data]
    /\ shared_files = Empty
    /\ file_chunks = Empty
    /\ downloading_files = Empty
    /\ peers_with_files = Empty
    /\ active_transfers = Empty
    /\ assembled = Empty
    /\ requested = <<>>
    /\ last = [op |-> "new", res |-> "ok", d |-> NoHash, i |-> -1]
    /\ NoObservers
    /\ NoErrors
    /\ NoSignals
    /\ NoTasks
    /\ NoDeliveries

ShareContent ==
    /\ \E caller \in {Local, Remote} : share_file("f.bin", caller)
    /\ UNCHANGED <<observeVars, errorVars, signalVars, lockVars, deliveryVars>>

NextShare == ShareContent

SpecShare == InitShare /\ [][NextShare]_vars

----------------------------------------------------------------------------
(* C12 .. C14: chunking and chunk digests *)

\* ceil(a / b) for b > 0.
CeilDiv(a, b) == (a + b - 1) \div b

RECURSIVE SumLen(_)
SumLen(ss) == IF ss = <<>> THEN 0 ELSE Len(Head(ss)) + SumLen(Tail(ss))

\* The bytes stored in the chunk store for the chunks of a manifest, in order.
StoredChunks(file) == [k \in DOMAIN file.chunks |-> file_chunks[file.chunks[k]].data]

\* C12: a published manifest of content of size S has
\* chunks.len() = total_chunks = ceil(S / chunk_size); every stored chunk
\* has chunk_size bytes except the last, which has
\* S - chunk_size * (ceil(S / chunk_size) - 1); the sizes sum to S.
C12_CeilChunks ==
    \A d \in DOMAIN shared_files :
        LET file == shared_files[d]
            S == Len(disk["f.bin"])
            n == CeilDiv(S, file.chunk_size)
        IN /\ file.size = S
           /\ file.total_chunks = n
           /\ Len(file.chunks) = n
           /\ \A k \in DOMAIN file.chunks : file.chunks[k] \in DOMAIN file_chunks
           /\ \A k \in 1..(n - 1) : Len(StoredChunks(file)[k]) = file.chunk_size
           /\ n > 0 => Len(StoredChunks(file)[n]) = S - file.chunk_size * (n - 1)
           /\ SumLen(StoredChunks(file)) = file.size

\* A content of two and a half chunks was shared: chunks of 2, 2 and 1 bytes.
C12_Witness ==
    /\ last.op = "share_file"
    /\ last.res = "ok"
    /\ Len(disk["f.bin"]) = 2 * ChunkSize + 1
    /\ shared_files[last.d].total_chunks = 3
    /\ Len(file_chunks[shared_files[last.d].chunks[3]].data) = 1

\* The i-th chunk_size-byte slice of data, i counted from 0.
Slice(data, i) ==
    SubSeq(data, i * ChunkSize + 1,
           IF (i + 1) * ChunkSize < Len(data) THEN (i + 1) * ChunkSize ELSE Len(data))

\* C13: after share_file returns Ok(d), for every index i below total_chunks
\* the chunk store holds, under the manifest's chunks[i], a record whose
\* data is the i-th chunk of the file, whose index is i and whose chunk_hash
\* is the hash of the little-endian bytes of i followed by the chunk's bytes.
C13_ChunksStored ==
    (last.op = "share_file" /\ last.res = "ok") =>
        LET file == shared_files[last.d]
        IN \A i \in 0..(file.total_chunks - 1) :
               /\ i + 1 \in DOMAIN file.chunks
               /\ file.chunks[i + 1] \in DOMAIN file_chunks
               /\ LET chunk == file_chunks[file.chunks[i + 1]]
                  IN /\ chunk.data = Slice(disk["f.bin"], i)
                     /\ chunk.index = i
                     /\ chunk.chunk_hash = file.chunks[i + 1]
                     /\ chunk.chunk_hash = ToLeBytes(i) \o Slice(disk["f.bin"], i)

\* A three-chunk content was shared and its last chunk is stored at index 2.
C13_Witness ==
    /\ last.op = "share_file"
    /\ last.res = "ok"
    /\ shared_files[last.d].total_chunks = 3
    /\ \E h \in DOMAIN file_chunks :
           file_chunks[h].index = 2 /\ file_chunks[h].data = <<1>>

\* The byte contents a chunk can have.
ChunkContents == SeqsUpTo(0..MaxByte, ChunkSize)

\* C14: the chunk digest binds the position.  The digest a published
\* manifest has at index i, computed over bytes b, is calculate_chunk_hash(j, c)
\* for no other index j and for no other bytes c; so no two indices of a
\* manifest have the same digest, whether their bytes are equal or not.
C14_DigestBindsIndex ==
    \A d \in DOMAIN shared_files :
        LET file == shared_files[d]
        IN /\ \A k \in DOMAIN file.chunks :
                  \A j \in 0..MaxIndex, c \in ChunkContents :
                      file.chunks[k] = calculate_chunk_hash(j, c) =>
                          (j = k - 1 /\ c = Slice(disk["f.bin"], k - 1))
           /\ \A k, j \in DOMAIN file.chunks :
                  file.chunks[k] = file.chunks[j] => k = j

\* A shared content has the same bytes at index 0 and at index 1, under
\* two digests.
C14_Witness ==
    /\ last.op = "share_file"
    /\ last.res = "ok"
    /\ shared_files[last.d].total_chunks >= 2
    /\ LET file == shared_files[last.d]
       IN /\ file.chunks[1] # file.chunks[2]
          /\ file_chunks[file.chunks[1]].data = file_chunks[file.chunks[2]].data
          /\ file_chunks[file.chunks[1]].index = 0
          /\ file_chunks[file.chunks[2]].index = 1

----------------------------------------------------------------------------
(* C15 .. C19: what share_file publishes and what it leaves alone *)

\* C15: after share_file succeeds, the progress entry of the shared digest
\* (what get_transfer_progress reports for it) has status Completed,
\* percentage 100 and bytes_transferred = total_bytes.
C15_UploadEntryComplete ==
    (last.op = "share_file" /\ last.res = "ok") =>
        LET entry == active_transfers[last.d]
        IN /\ entry.status = "Completed"
           /\ entry.percentage = 100
           /\ entry.bytes_transferred = entry.total_bytes

\* C16: after share_file(path, origin_peer) returns Ok(d), peers_with_files
\* lists origin_peer for d, so that request_chunks finds a peer to ask.
C16_SharerRecordedAsPeer ==
    (last.op = "share_file" /\ last.res = "ok") =>
        /\ last.d \in DOMAIN peers_with_files
        /\ shared_files[last.d].peer_id \in peers_with_files[last.d]
        /\ HasPeers(last.d)

\* C17: publishing is idempotent.  share_file of a content whose digest is
\* already in the catalog adds no entry, and the entry of the digest has the
\* same chunks, total_chunks, size and chunk_size after it as before.
C17_PublishIdempotent ==
    [][(/\ last'.op = "share_file"
        /\ last'.res = "ok"
        /\ last'.d \in DOMAIN shared_files) =>
           /\ DOMAIN shared_files' = DOMAIN shared_files
           /\ shared_files'[last'.d].hash = shared_files[last'.d].hash
           /\ shared_files'[last'.d].chunks = shared_files[last'.d].chunks
           /\ shared_files'[last'.d].total_chunks = shared_files[last'.d].total_chunks
           /\ shared_files'[last'.d].size = shared_files[last'.d].size
           /\ shared_files'[last'.d].chunk_size = shared_files[last'.d].chunk_size]_vars

\* A content was shared again: a download of it was started before this
\* share, so its manifest was already in the catalog.
C17_Witness ==
    /\ last.op = "share_file"
    /\ last.res = "ok"
    /\ last.d \in DOMAIN downloading_files
    /\ Cardinality({d \in DOMAIN shared_files : shared_files[d].hash = last.d}) = 1

\* C18: a manifest is immutable once published.  No step changes the name,
\* peer_id, timestamp or chunks of a manifest of the catalog, and a share_file
\* that would store a different manifest under a taken digest returns an
\* error instead.
C18_ManifestImmutable ==
    [][\A d \in DOMAIN shared_files :
           /\ d \in DOMAIN shared_files'
           /\ shared_files'[d].name = shared_files[d].name
           /\ shared_files'[d].peer_id = shared_files[d].peer_id
           /\ shared_files'[d].timestamp = shared_files[d].timestamp
           /\ shared_files'[d].chunks = shared_files[d].chunks]_vars

\* C19: chunk store records are immutable.  No step removes a record or
\* changes its data, index or file_hash; an insert under a taken chunk hash
\* leaves the stored record as it is.
C19_ChunkRecordImmutable ==
    [][\A h \in DOMAIN file_chunks :
           /\ h \in DOMAIN file_chunks'
           /\ file_chunks'[h].data = file_chunks[h].data
           /\ file_chunks'[h].index = file_chunks[h].index
           /\ file_chunks'[h].file_hash = file_chunks[h].file_hash]_vars

----------------------------------------------------------------------------
(* Downloads with peers listed for the file.  No line of the program writes *)
(* peers_with_files; record is the operation of the peer availability index *)
(* that the specification gives for it (section 4.3).                       *)

PeerIds == {"p1", "p2"}

\* record(file_digest, peer_id): the peer joins the set of the digest.
record(file_hash, peer_id) ==
    /\ peers_with_files' =
           Put(peers_with_files, file_hash,
               (IF file_hash \in DOMAIN peers_with_files
                THEN peers_with_files[file_hash] ELSE {}) \cup {peer_id})
    /\ last' = [op |-> "record", res |-> "ok", d |-> file_hash, i |-> -1]
    /\ UNCHANGED <<shared_files, file_chunks, downloading_files, active_transfers,
                   disk, assembled, requested>>

RecordPeer ==
    /\ \E file_hash \in DOMAIN shared_files, peer_id \in PeerIds :
           record(file_hash, peer_id)
    /\ UNCHANGED <<observeVars, errorVars, signalVars, lockVars, deliveryVars>>

\* The files shared here: the three-chunk file and the one-chunk file that
\* is its first chunk.
PeerShareCalls == {<<"a.bin", Local>>, <<"b.bin", Local>>}

ShareForPeers ==
    /\ \E call \in PeerShareCalls : share_file(call[1], call[2])
    /\ UNCHANGED <<observeVars, errorVars, signalVars, lockVars, deliveryVars>>

NextPeers == ShareForPeers \/ RecordPeer \/ DownloadFile

SpecPeers == Init /\ [][NextPeers]_vars

----------------------------------------------------------------------------
(* C20: the peers the chunk requests of a download are addressed to *)

\* The number of requests of the last download_file addressed to peer p.
RequestsTo(p) == Cardinality({k \in DOMAIN requested : requested[k].peer_id = p})

\* C20: the chunk requests of a download are spread round-robin.  After a
\* download_file of a file of two or more chunks with two or more peers
\* listed, the requests did not all go to one peer, and the numbers of
\* requests sent to any two listed peers differ by at most one.
C20_RoundRobinRequests ==
    (/\ last.op = "download_file"
     /\ last.res = "ok"
     /\ last.d \in DOMAIN peers_with_files
     /\ Cardinality(peers_with_files[last.d]) >= 2
     /\ shared_files[last.d].total_chunks >= 2) =>
        /\ Len(requested) = shared_files[last.d].total_chunks
        /\ Cardinality({requested[k].peer_id : k \in DOMAIN requested}) >= 2
        /\ \A p, q \in peers_with_files[last.d] : RequestsTo(p) - RequestsTo(q) <= 1

----------------------------------------------------------------------------
(* C21: how many chunk requests of a download are in flight at once *)

\* C21: a download sends requests for several indices concurrently.  After
\* a download_file of a file of two or more chunks with two or more peers
\* listed, some request was sent while another was in flight, and no request
\* was sent with more than min(number of listed peers, 8) in flight.
C21_ConcurrentRequests ==
    (/\ last.op = "download_file"
     /\ last.res = "ok"
     /\ last.d \in DOMAIN peers_with_files
     /\ Cardinality(peers_with_files[last.d]) >= 2
     /\ shared_files[last.d].total_chunks >= 2) =>
        /\ \E k \in DOMAIN requested : requested[k].in_flight > 1
        /\ \A k \in DOMAIN requested :
               requested[k].in_flight <= Min({Cardinality(peers_with_files[last.d]), 8})

----------------------------------------------------------------------------
(* C22 .. C26: failed deliveries, stalled downloads, the progress entry *)

\* C22: a delivery that fails verification (its bytes do not hash to the
\* manifest's digest of the index) never completes a session: the index is
\* retried, and a download that gets only corrupt bytes for it ends Failed,
\* never Completed.
C22_CorruptNeverCompletes ==
    [][(/\ last'.op = "chunk_received"
        /\ last'.res \in {"accepted_bad", "completed_bad", "error_bad"}) =>
           active_transfers'[last'.d].status # "Completed"]_vars

\* The program has no cancel_download.  This is the operation as the
\* specification gives it (section 4.4): a session in progress is moved to
\* Failed; a terminal one is left as it is.  The status of a session lives in
\* its progress entry.
cancel_download(file_hash) ==
    /\ active_transfers' =
           IF /\ file_hash \in DOMAIN downloading_files
              /\ active_transfers[file_hash].status = "InProgress"
           THEN [active_transfers EXCEPT ![file_hash].status = "Failed"]
           ELSE active_transfers
    /\ last' = [op |-> "cancel_download",
                res |-> IF active_transfers' = active_transfers THEN "noop" ELSE "cancelled",
                d |-> file_hash, i |-> -1]
    /\ UNCHANGED <<shared_files, file_chunks, downloading_files, peers_with_files,
                   disk, assembled, requested>>

CancelDownload ==
    /\ \E file_hash \in DOMAIN downloading_files : cancel_download(file_hash)
    /\ UNCHANGED <<observeVars, errorVars, signalVars, lockVars, deliveryVars>>

NextCancel == ShareForPeers \/ DownloadFile \/ ChunkReceived \/ CancelDownload

SpecCancel == Init /\ [][NextCancel]_vars

\* C23: once cancel_download has moved a session to Failed, no chunk arrival
\* changes its chunks_received, its bytes_received or its progress entry
\* (and cancel_download of a terminal session changes nothing).
C23_CancelledStaysUntouched ==
    [][\A d \in DOMAIN downloading_files :
           /\ (active_transfers[d].status = "Failed" /\ last'.op = "chunk_received") =>
                  /\ downloading_files'[d] = downloading_files[d]
                  /\ active_transfers'[d] = active_transfers[d]
           /\ (/\ active_transfers[d].status \in {"Completed", "Failed"}
               /\ last'.op = "cancel_download"
               /\ last'.d = d) =>
                  /\ downloading_files'[d] = downloading_files[d]
                  /\ active_transfers'[d] = active_transfers[d]]_vars

\* The download of d has received nothing: its entry is InProgress at 0 bytes.
StalledIn(sessions, entries, d) ==
    /\ d \in DOMAIN sessions
    /\ sessions[d].chunks_received = {}
    /\ sessions[d].bytes_received = 0
    /\ entries[d].status = "InProgress"
    /\ entries[d].bytes_transferred = 0

Stalled(d) == StalledIn(downloading_files, active_transfers, d)

C26_ProgressDerivedFromSession ==
    \A d \in DOMAIN downloading_files :
        /\ d \in DOMAIN active_transfers
        /\ active_transfers[d].bytes_transferred = downloading_files[d].bytes_received
        /\ active_transfers[d].total_bytes = shared_files[d].size

\* C30: when the write of the assembled file fails, the error is returned
\* and the digest's progress status is not Completed in the resulting state.
C30_WriteFailureNotCompleted ==
    (last.op = "chunk_received" /\ last.res = "error") =>
        active_transfers[last.d].status # "Completed"

----------------------------------------------------------------------------
(* src/src/error.rs: recovery_strategy and retry_with_backoff.              *)
(* SpecErrors runs retry_with_backoff over every plan of operation          *)
(* outcomes up to MaxAttempts calls, and classifies every error variant.    *)

MaxAttempts == 4

\* enum DeskShareError (error.rs:6-74); the payload of a variant plays no
\* part in recovery_strategy.
DeskShareError ==
    {"NetworkConnection", "DiscoveryFailed", "NatTraversalFailed",
     "PeerConnectionFailed", "FileTransferFailed", "FileNotFound",
     "FileReadError", "ChunkTransferFailed", "IntegrityCheckFailed",
     "ScreenCaptureFailed", "SessionNotFound", "EncodingFailed",
     "SignalingFailed", "SdpExchangeFailed", "IceCandidateFailed",
     "MessageSendFailed", "InvalidMessageFormat", "SerializationError",
     "InvalidConfig", "Timeout", "Internal"}

\* enum RecoveryStrategy (error.rs:80-87).
Retry(max_attempts, backoff_ms) ==
    [kind |-> "Retry", max_attempts |-> max_attempts, backoff_ms |-> backoff_ms]

Fallback == [kind |-> "Fallback"]

Fail == [kind |-> "Fail"]

\* Mutant of the first arm of the match: ChunkTransferFailed is not listed
\* and falls to the default arm.
recovery_strategy_ChunkUnlisted(error) ==
    CASE error \in {"NetworkConnection", "PeerConnectionFailed"} -> Retry(3, 1000)
      [] error = "NatTraversalFailed" -> Fallback
      [] error \in {"FileNotFound", "IntegrityCheckFailed"} -> Fail
      [] error = "ScreenCaptureFailed" -> Retry(1, 500)
      [] OTHER -> Fail

\* DeskShareError::recovery_strategy (error.rs:92-122).
recovery_strategy(error) ==
    CASE error \in {"NetworkConnection", "PeerConnectionFailed",
                    "ChunkTransferFailed"} -> Retry(3, 1000)
      [] error = "NatTraversalFailed" -> Fallback
      [] error \in {"FileNotFound", "IntegrityCheckFailed"} -> Fail
      [] error = "ScreenCaptureFailed" -> Retry(1, 500)
      [] OTHER -> Fail

\* A call of recovery_strategy on an error of some variant.
RecoveryStrategy ==
    /\ \E error \in DeskShareError :
           recovery' = [error |-> error, strategy |-> recovery_strategy(error)]
    /\ UNCHANGED <<transferVars, observeVars, retry, signalVars, lockVars, deliveryVars>>

\* The operation handed to retry_with_backoff: call n succeeds with the
\* value n or fails with the error of call n, as the plan says.
Plans == [1..MaxAttempts -> BOOLEAN]

InitialBackoffs == {0, 10}

operation(plan, n) == [ok |-> plan[n], value |-> n]

\* Mutant of the guard of line 164: the guard is dropped and the first error
\* is returned.
GiveUp_AtFirstFailure(attempts, max_attempts) == TRUE

\* Mutant of the guard of line 164: the helper gives up one attempt early.
GiveUp_OneEarly(attempts, max_attempts) == attempts + 1 >= max_attempts

\* error.rs:164: `Err(e) if attempts >= max_attempts`.
GiveUp(attempts, max_attempts) == attempts >= max_attempts

\* retry_with_backoff is called (error.rs:147-157): the locals are set.
RetryStart ==
    /\ retry.pc \in {"idle", "done"}
    /\ \E plan \in Plans, max_attempts \in 0..MaxAttempts,
          initial_backoff_ms \in InitialBackoffs :
           retry' = [pc |-> "loop", plan |-> plan, max_attempts |-> max_attempts,
                     initial_backoff_ms |-> initial_backoff_ms,
                     attempts |-> 0, backoff |-> initial_backoff_ms,
                     calls |-> 0, slept |-> 0, waits |-> <<>>,
                     result |-> [ok |-> FALSE, value |-> 0]]
    /\ UNCHANGED <<transferVars, observeVars, recovery, signalVars, lockVars, deliveryVars>>

\* One turn of the loop up to the sleep (error.rs:159-166).
RetryAttempt ==
    /\ retry.pc = "loop"
    /\ LET attempts == retry.attempts + 1
           outcome == operation(retry.plan, retry.calls + 1)
           called == [retry EXCEPT !.attempts = attempts, !.calls = @ + 1]
       IN retry' =
             IF outcome.ok
             THEN [called EXCEPT !.pc = "done", !.result = outcome]
             ELSE IF GiveUp(attempts, retry.max_attempts)
                  THEN [called EXCEPT !.pc = "done", !.result = outcome]
                  ELSE [called EXCEPT !.pc = "sleep"]
    /\ UNCHANGED <<transferVars, observeVars, recovery, signalVars, lockVars, deliveryVars>>

\* Mutant of line 167: the backoff is not doubled.
DoubleBackoff_Forgotten(backoff) == backoff

\* error.rs:167: `backoff *= 2`.
DoubleBackoff(backoff) == backoff * 2

\* The sleep is over and the backoff doubles (error.rs:166-167); waits keeps
\* the durations slept, in order.
RetrySlept ==
    /\ retry.pc = "sleep"
    /\ retry' = [retry EXCEPT !.pc = "loop",
                              !.slept = @ + retry.backoff,
                              !.waits = Append(@, retry.backoff),
                              !.backoff = DoubleBackoff(@)]
    /\ UNCHANGED <<transferVars, observeVars, recovery, signalVars, lockVars, deliveryVars>>

NextErrors == RetryStart \/ RetryAttempt \/ RetrySlept \/ RecoveryStrategy

SpecErrors == Init /\ [][NextErrors]_vars

\* The number of calls of the plan that fail before the first that succeeds.
LeadingFailures(plan) ==
    IF \E n \in DOMAIN plan : plan[n]
    THEN Min({n \in DOMAIN plan : plan[n]}) - 1
    ELSE Len(plan)

\* C27: when the operation fails on its first k calls and succeeds on call
\* k+1, with k < max_attempts, retry_with_backoff returns Ok with the value
\* of call k+1 and the operation has been invoked exactly k+1 times.
C27_RetrySucceedsAfterTransientFailures ==
    (/\ retry.pc = "done"
     /\ LeadingFailures(retry.plan) < Len(retry.plan)
     /\ LeadingFailures(retry.plan) < retry.max_attempts) =>
        /\ retry.result = [ok |-> TRUE, value |-> LeadingFailures(retry.plan) + 1]
        /\ retry.calls = LeadingFailures(retry.plan) + 1

\* Two failures, then success, with max_attempts 3: Ok after 3 invocations.
C27_Witness ==
    /\ retry.pc = "done"
    /\ retry.max_attempts = 3
    /\ LeadingFailures(retry.plan) = 2
    /\ retry.result.ok
    /\ retry.calls = 3

\* The loop of retry_with_backoff as the runtime drives it: the operation
\* returns and the sleep ends.
SpecErrorsLive == SpecErrors /\ WF_vars(RetryAttempt) /\ WF_vars(RetrySlept)

\* The operation fails on every call.
AlwaysFails(plan) == \A n \in DOMAIN plan : ~plan[n]

\* The invocations a call of retry_with_backoff may make at most.
AttemptLimit(max_attempts) == IF max_attempts <= 1 THEN 1 ELSE max_attempts

\* C37: retry_with_backoff terminates: it never invokes the operation more
\* than max_attempts times (once when max_attempts is 0 or 1), and a call
\* in its loop returns.  When the operation fails on every call, it has
\* been invoked exactly that many times at the return, and the result is
\* the error of the last invocation.
C37_RetryTerminates ==
    /\ [](retry.pc # "idle" =>
            /\ retry.calls <= AttemptLimit(retry.max_attempts)
            /\ retry.pc \in {"loop", "sleep"} =>
                   retry.calls < AttemptLimit(retry.max_attempts)
            /\ (retry.pc = "done" /\ AlwaysFails(retry.plan)) =>
                   /\ retry.calls = AttemptLimit(retry.max_attempts)
                   /\ retry.result = [ok |-> FALSE, value |-> retry.calls])
    /\ (retry.pc \in {"loop", "sleep"}) ~> (retry.pc = "done")

\* Three failures with max_attempts 3: the error of the third invocation.
C37_Witness ==
    /\ retry.pc = "done"
    /\ AlwaysFails(retry.plan)
    /\ retry.max_attempts = 3
    /\ retry.calls = 3
    /\ retry.result = [ok |-> FALSE, value |-> 3]

\* C38: retry_with_backoff backs off exponentially: the n-th wait, the one
\* before attempt n+1, lasts initial_backoff_ms * 2^(n-1) ms; there is
\* exactly one wait between two consecutive attempts; and no wait follows
\* the last attempt, be it a success or the final failure.
C38_ExponentialBackoff ==
    retry.pc # "idle" =>
        /\ \A n \in 1..Len(retry.waits) :
               retry.waits[n] = retry.initial_backoff_ms * 2^(n - 1)
        /\ retry.pc = "loop" => Len(retry.waits) = retry.calls
        /\ retry.pc \in {"sleep", "done"} => Len(retry.waits) = retry.calls - 1

\* Four attempts from 10 ms on, the last of them final: waits of 10, 20 and
\* 40 ms.
C38_Witness ==
    /\ retry.pc = "done"
    /\ retry.initial_backoff_ms = 10
    /\ retry.calls = 4
    /\ retry.waits = <<10, 20, 40>>

NetworkFailures == {"NetworkConnection", "PeerConnectionFailed", "ChunkTransferFailed"}

FileFailures == {"FileNotFound", "IntegrityCheckFailed"}

\* C28: recovery_strategy gives Retry with max_attempts 3 for the
\* network-layer failures and Fail for the file-level failures, and gives
\* no variant a Retry with more than 3 attempts.
C28_RecoveryClassification ==
    /\ recovery.error \in NetworkFailures =>
           /\ recovery.strategy.kind = "Retry"
           /\ recovery.strategy.max_attempts = 3
    /\ recovery.error \in FileFailures => recovery.strategy = Fail
    /\ recovery.strategy.kind = "Retry" => recovery.strategy.max_attempts <= 3

\* A chunk transfer failure has been classified.
C28_Witness ==
    /\ recovery.error = "ChunkTransferFailed"
    /\ recovery.strategy.kind = "Retry"

----------------------------------------------------------------------------
(* src/src/p2p/signalling.rs: SignalingServer.                              *)
(* ChannelCapacity stands for the 100 slots of mpsc::channel(100), scaled   *)
(* down.  A message is its kind and its addressee; the SDP text plays no    *)
(* part.  The calls made are bounded by MaxPending messages stored.         *)

ChannelCapacity == 3
MaxPending == 4

LocalPeerId == "peer1"

RemotePeerIds == {"peer2"}

\* signalling.rs:19-37: the three messages of the send methods.
SignalingMessage(kind, to) == [kind |-> kind, from |-> LocalPeerId, to |-> to]

\* The write guard of pending_messages is held from line 252 to the return.
PendingLocked == \E c \in Callers : sender[c].pc = "send"

\* The messages stored or about to be stored.
PendingCount ==
    LET lens == [to \in DOMAIN pending_messages |-> Len(pending_messages[to])]
        waiting == {c \in Callers : sender[c].pc = "lock"}
        RECURSIVE Sum(_)
        Sum(S) == IF S = {} THEN 0
                  ELSE LET x == CHOOSE x \in S : TRUE IN lens[x] + Sum(S \ {x})
    IN Sum(DOMAIN lens) + Cardinality(waiting)

\* send_message is entered (signalling.rs:250): the caller waits for the
\* write guard of pending_messages.
send_message(c, to, message) ==
    /\ sender[c].pc = "idle"
    /\ PendingCount < MaxPending
    /\ sender' = [sender EXCEPT ![c] = [pc |-> "lock", to |-> to, message |-> message]]
    /\ UNCHANGED <<pending_messages, channel>>

\* signalling.rs:170-182, 185-197, 200-216.
send_offer(c, to) == send_message(c, to, SignalingMessage("Offer", to))

send_answer(c, to) == send_message(c, to, SignalingMessage("Answer", to))

send_ice_candidate(c, to) == send_message(c, to, SignalingMessage("IceCandidate", to))

\* signalling.rs:252-256: the guard is taken and the message pushed on the
\* addressee's list.
PushPending(c) ==
    /\ sender[c].pc = "lock"
    /\ ~PendingLocked
    /\ pending_messages' =
           Put(pending_messages, sender[c].to,
               IF sender[c].to \in DOMAIN pending_messages
               THEN Append(pending_messages[sender[c].to], sender[c].message)
               ELSE <<sender[c].message>>)
    /\ sender' = [sender EXCEPT ![c].pc = "send"]
    /\ UNCHANGED channel

\* signalling.rs:259-266: message_tx.send(message).await completes once the
\* channel has a free slot; Ok(()) is returned and the guard dropped.
ChannelSend(c) ==
    /\ sender[c].pc = "send"
    /\ Len(channel) < ChannelCapacity
    /\ channel' = Append(channel, sender[c].message)
    /\ sender' = [sender EXCEPT ![c] = [pc |-> "idle"]]
    /\ UNCHANGED pending_messages

\* Mutant of line 285: the whole map is taken, not the peer's entry.
get_pending_messages_TakesAll(peer_id) ==
    /\ ~PendingLocked
    /\ pending_messages' = Empty
    /\ UNCHANGED <<channel, sender>>

\* signalling.rs:285: what `pending.remove(peer_id).unwrap_or_default()`
\* evaluates to.
Removed(peer_id) ==
    IF peer_id \in DOMAIN pending_messages THEN pending_messages[peer_id] ELSE <<>>

\* signalling.rs:282-286: get_pending_messages takes the peer's list.
get_pending_messages(peer_id) ==
    /\ ~PendingLocked
    /\ pending_messages' = [to \in DOMAIN pending_messages \ {peer_id} |->
                               pending_messages[to]]
    /\ UNCHANGED <<channel, sender>>

\* A message is taken from message_rx (signalling.rs:143), when something
\* reads it.
Receive ==
    /\ channel # <<>>
    /\ channel' = Tail(channel)
    /\ UNCHANGED <<pending_messages, sender>>

SendOffer ==
    /\ \E c \in Callers, to \in RemotePeerIds : send_offer(c, to)
    /\ UNCHANGED <<transferVars, observeVars, errorVars, lockVars, deliveryVars>>

SendAnswer ==
    /\ \E c \in Callers, to \in RemotePeerIds : send_answer(c, to)
    /\ UNCHANGED <<transferVars, observeVars, errorVars, lockVars, deliveryVars>>

SendIceCandidate ==
    /\ \E c \in Callers, to \in RemotePeerIds : send_ice_candidate(c, to)
    /\ UNCHANGED <<transferVars, observeVars, errorVars, lockVars, deliveryVars>>

SendProceeds(c) ==
    /\ PushPending(c) \/ ChannelSend(c)
    /\ UNCHANGED <<transferVars, observeVars, errorVars, lockVars, deliveryVars>>

SendStep == \E c \in Callers : SendProceeds(c)

GetPendingMessages ==
    /\ \E peer_id \in RemotePeerIds : get_pending_messages(peer_id)
    /\ UNCHANGED <<transferVars, observeVars, errorVars, lockVars, deliveryVars>>

ReceiveMessage ==
    /\ Receive
    /\ UNCHANGED <<transferVars, observeVars, errorVars, lockVars, deliveryVars>>

NextSignal ==
    \/ SendOffer
    \/ SendAnswer
    \/ SendIceCandidate
    \/ SendStep
    \/ GetPendingMessages
    \/ ReceiveMessage

\* A call that can proceed does: the tokio runtime polls a ready future, and
\* the RwLock serves its waiters in order.  Nothing obliges anyone to call
\* a send method, to take the pending list or to read the channel.
SpecSignal ==
    /\ Init
    /\ [][NextSignal]_vars
    /\ \A c \in Callers : SF_vars(SendProceeds(c))

\* C29: every call of send_offer, send_answer or send_ice_candidate
\* eventually returns Ok, whether or not anything reads the channel.
C29_SendEventuallyReturns ==
    \A c \in Callers : (sender[c].pc # "idle") ~> (sender[c].pc = "idle")

----------------------------------------------------------------------------
(* get_transfer_progress beside the writers of active_transfers.            *)
(* SpecObserve takes handle_chunk_received one statement at a time, with    *)
(* the tokio RwLock of active_transfers: the handler's write guard lives    *)
(* from line 261 to the end of the `if let` block (line 269), a reader's    *)
(* guard for the statement of line 166.  share_file and download_file       *)
(* insert under a write guard of one statement (lines 127, 156);            *)
(* download_file also needs the write guard of downloading_files, which a   *)
(* running handler holds (line 245).  No peer is listed, as in the          *)
(* program, so download_file requests nothing itself.                       *)

LockFree == ~at_lock.writer /\ at_lock.readers = {}

\* Mutant of the read of line 166: the entries are read without waiting
\* for the writer.
ReadGranted_Unguarded(lock) == TRUE

\* RwLock::read (line 166): granted when no writer holds the lock.
ReadGranted(lock) == ~lock.writer

\* get_transfer_progress is called (line 165).
get_transfer_progress(o) ==
    /\ observer[o].pc = "idle"
    /\ observer' = [observer EXCEPT ![o] = [pc |-> "waiting", returned |-> Empty]]
    /\ UNCHANGED <<transferVars, at_lock, arrival, stable>>

\* self.active_transfers.read().await
ReadLock(o) ==
    /\ observer[o].pc = "waiting"
    /\ ReadGranted(at_lock)
    /\ at_lock' = [at_lock EXCEPT !.readers = @ \cup {o}]
    /\ observer' = [observer EXCEPT ![o].pc = "reading"]
    /\ UNCHANGED <<transferVars, arrival, stable>>

\* .values().cloned().collect(): the entries are copied, the guard is
\* dropped and the vector returned.
Collect(o) ==
    /\ observer[o].pc = "reading"
    /\ observer' = [observer EXCEPT ![o] = [pc |-> "idle", returned |-> active_transfers]]
    /\ at_lock' = [at_lock EXCEPT !.readers = @ \ {o}]
    /\ UNCHANGED <<transferVars, arrival, stable>>

\* lines 245-258: the guard of downloading_files is taken, the session that
\* takes the chunk is found and updated; a chunk no session takes ends the
\* call.
ArrivalBegin(chunk_hash, chunk_index, data, order) ==
    /\ arrival.pc = "idle"
    /\ LET elig == Eligible(Now, order, chunk_hash, chunk_index, data)
       IN IF elig = {}
          THEN /\ last' = [op |-> "chunk_received",
                           res |-> IF IsDuplicate(chunk_hash, chunk_index, data)
                                   THEN "duplicate" ELSE "ignored",
                           d |-> NoHash, i |-> -1]
               /\ UNCHANGED <<downloading_files, arrival>>
          ELSE LET d == order[Min(elig)]
               IN /\ downloading_files' =
                         [downloading_files EXCEPT
                             ![d].chunks_received = @ \cup {chunk_index},
                             ![d].bytes_received = @ + Len(data)]
                  /\ arrival' = [pc |-> "lock", d |-> d, i |-> chunk_index,
                                 res |-> "accepted"]
                  /\ last' = last
    /\ UNCHANGED <<shared_files, file_chunks, peers_with_files, active_transfers,
                   disk, assembled, requested, at_lock, observer, stable>>

\* line 261: self.active_transfers.write().await, then get_mut.
ArrivalLock ==
    /\ arrival.pc = "lock"
    /\ LockFree
    /\ at_lock' = [at_lock EXCEPT !.writer = TRUE]
    /\ arrival' = [arrival EXCEPT !.pc = IF arrival.d \in DOMAIN active_transfers
                                         THEN "bytes" ELSE "release"]
    /\ UNCHANGED <<transferVars, observer, stable>>

\* line 262
ArrivalBytes ==
    /\ arrival.pc = "bytes"
    /\ active_transfers' =
           [active_transfers EXCEPT ![arrival.d].bytes_transferred =
                                        downloading_files[arrival.d].bytes_received]
    /\ arrival' = [arrival EXCEPT !.pc = "percentage"]
    /\ UNCHANGED <<shared_files, file_chunks, downloading_files, peers_with_files,
                   disk, assembled, requested, last, at_lock, observer, stable>>

\* lines 263-265
ArrivalPercentage ==
    /\ arrival.pc = "percentage"
    /\ active_transfers' =
           [active_transfers EXCEPT ![arrival.d].percentage =
               Percentage(downloading_files[arrival.d].bytes_received,
                          shared_files[arrival.d].size)]
    /\ arrival' = [arrival EXCEPT !.pc = IF AllReceived(downloading_files[arrival.d])
                                         THEN "status" ELSE "release"]
    /\ UNCHANGED <<shared_files, file_chunks, downloading_files, peers_with_files,
                   disk, assembled, requested, last, at_lock, observer, stable>>

\* line 266
ArrivalStatus ==
    /\ arrival.pc = "status"
    /\ active_transfers' = [active_transfers EXCEPT ![arrival.d].status = "Completed"]
    /\ arrival' = [arrival EXCEPT !.pc = "assemble"]
    /\ UNCHANGED <<shared_files, file_chunks, downloading_files, peers_with_files,
                   disk, assembled, requested, last, at_lock, observer, stable>>

\* line 267: assemble_file, under the guard.
ArrivalAssemble ==
    /\ arrival.pc = "assemble"
    /\ \E write_ok \in BOOLEAN :
           LET st == assemble_file(Now, downloading_files[arrival.d], write_ok)
           IN /\ disk' = st.disk
              /\ assembled' = st.asm
              /\ arrival' = [arrival EXCEPT !.pc = "release",
                                 !.res = IF st.err THEN "error" ELSE "completed"]
    /\ UNCHANGED <<shared_files, file_chunks, downloading_files, peers_with_files,
                   active_transfers, requested, last, at_lock, observer, stable>>

\* lines 269-276: the guards are dropped and the call returns.
ArrivalRelease ==
    /\ arrival.pc = "release"
    /\ at_lock' = [at_lock EXCEPT !.writer = FALSE]
    /\ stable' = active_transfers
    /\ last' = [op |-> "chunk_received", res |-> arrival.res,
                d |-> arrival.d, i |-> arrival.i]
    /\ arrival' = [pc |-> "idle"]
    /\ UNCHANGED <<shared_files, file_chunks, downloading_files, peers_with_files,
                   active_transfers, disk, assembled, requested, observer>>

\* The chunks delivered here are stored chunks with their own bytes.
ArrivalStart ==
    /\ \E chunk_hash \in DOMAIN file_chunks :
           \E order \in IterationOrders(DOMAIN downloading_files,
                            Takers(chunk_hash, file_chunks[chunk_hash].index,
                                   file_chunks[chunk_hash].data) # {}) :
               ArrivalBegin(chunk_hash, file_chunks[chunk_hash].index,
                            file_chunks[chunk_hash].data, order)
    /\ UNCHANGED <<errorVars, signalVars, lockVars, deliveryVars>>

ArrivalStep ==
    /\ \/ ArrivalLock
       \/ ArrivalBytes
       \/ ArrivalPercentage
       \/ ArrivalStatus
       \/ ArrivalAssemble
       \/ ArrivalRelease
    /\ UNCHANGED <<errorVars, signalVars, lockVars, deliveryVars>>

\* The file shared here is the three-chunk file.
ObservedShareCalls == {<<"a.bin", Local>>}

ShareObserved ==
    /\ LockFree
    /\ \E call \in ObservedShareCalls : share_file(call[1], call[2])
    /\ stable' = active_transfers'
    /\ UNCHANGED <<at_lock, arrival, observer, errorVars, signalVars, lockVars, deliveryVars>>

DownloadObserved ==
    /\ LockFree
    /\ arrival.pc = "idle"
    /\ \E file_hash \in DOMAIN shared_files, output_path \in OutPaths :
           \E order \in IterationOrders(DOMAIN downloading_files \cup {file_hash}, FALSE) :
               download_file(file_hash, output_path, order, "none", TRUE)
    /\ stable' = active_transfers'
    /\ UNCHANGED <<at_lock, arrival, observer, errorVars, signalVars, lockVars, deliveryVars>>

GetTransferProgress ==
    /\ \E o \in Observers : get_transfer_progress(o)
    /\ UNCHANGED <<errorVars, signalVars, lockVars, deliveryVars>>

ObserverProceeds(o) ==
    /\ ReadLock(o) \/ Collect(o)
    /\ UNCHANGED <<errorVars, signalVars, lockVars, deliveryVars>>

ObserverStep == \E o \in Observers : ObserverProceeds(o)

NextObserve ==
    \/ ShareObserved
    \/ DownloadObserved
    \/ ArrivalStart
    \/ ArrivalStep
    \/ GetTransferProgress
    \/ ObserverStep

\* A handler that can take its next step takes it, and so does a reader;
\* the lock serves its waiters in turn, so that a reader the lock is free
\* for again and again gets it.
SpecObserve ==
    /\ Init
    /\ [][NextObserve]_vars
    /\ WF_vars(ArrivalStep)
    /\ \A o \in Observers : SF_vars(ObserverProceeds(o))

----------------------------------------------------------------------------
(* C31..C35: error paths and frame conditions of the transfer engine *)

\* C31: a share_file call that returns the read error leaves the manifest
\* catalog, the chunk store, the download sessions and the progress registry
\* as they were.
C31_UnreadableShareChangesNothing ==
    [][(last'.op = "share_file" /\ last'.res = "read_error") =>
           UNCHANGED <<shared_files, file_chunks, downloading_files,
                       active_transfers>>]_vars

\* The read error was returned with a manifest, a session and entries in place.
C31_Witness ==
    /\ last.op = "share_file"
    /\ last.res = "read_error"
    /\ shared_files # Empty
    /\ downloading_files # Empty
    /\ \E d \in DOMAIN downloading_files :
           downloading_files[d].chunks_received # {}

\* C32: the chunks download_file fetches for one file are credited to that
\* file's session only: the session of every other file keeps its
\* chunks_received and bytes_received.
C32_ChunkCreditedToRequestingSession ==
    [][(last'.op = "download_file" /\ last'.d # NoHash) =>
           \A d \in DOMAIN downloading_files \ {last'.d} :
               /\ downloading_files'[d].chunks_received =
                      downloading_files[d].chunks_received
               /\ downloading_files'[d].bytes_received =
                      downloading_files[d].bytes_received]_vars

\* The sizes of the chunks of the manifest at the indices of the set S.
ReceivedSize(file, S) ==
    LET size(i) == Min({file.chunk_size, file.size - i * file.chunk_size})
        RECURSIVE Sum(_)
        Sum(T) == IF T = {} THEN 0
                  ELSE LET i == CHOOSE i \in T : TRUE IN size(i) + Sum(T \ {i})
    IN Sum(S)

\* C33: for every download session, chunks_received holds only indices
\* below chunks_expected, bytes_received is the sum of the sizes of the
\* chunks at those indices and is at most the manifest's size.
C33_SessionWithinBounds ==
    \A d \in DOMAIN downloading_files :
        LET downloading == downloading_files[d]
        IN /\ downloading.chunks_received \subseteq 0..(downloading.chunks_expected - 1)
           /\ Cardinality(downloading.chunks_received) <= downloading.chunks_expected
           /\ downloading.bytes_received =
                  ReceivedSize(shared_files[d], downloading.chunks_received)
           /\ downloading.bytes_received <= shared_files[d].size

\* SpecArrivals: the engine with the arguments of the last
\* handle_chunk_received call kept in `arrival`.
ChunkArrives ==
    /\ \E chunk_hash \in ChunkLabels, chunk_index \in 0..MaxIndex :
           \E data \in Payloads(chunk_hash) :
               \E order \in IterationOrders(DOMAIN downloading_files,
                                            Takers(chunk_hash, chunk_index, data) # {}),
                  write_ok \in WriteOutcomes(Takers(chunk_hash, chunk_index, data) # {}) :
                   /\ chunk_received(chunk_hash, chunk_index, data, order, write_ok)
                   /\ arrival' = [pc |-> "idle", chunk_hash |-> chunk_hash,
                                  chunk_index |-> chunk_index, data |-> data]
    /\ UNCHANGED <<at_lock, observer, stable, errorVars, signalVars, lockVars, deliveryVars>>

NextArrivals == ShareForPeers \/ DownloadFile \/ ChunkArrives

SpecArrivals == Init /\ [][NextArrivals]_vars

\* The manifest of the session stored under d has the digest at the index.
InManifest(d, chunk_hash, chunk_index) ==
    /\ d \in DOMAIN shared_files
    /\ chunk_index < Len(shared_files[d].chunks)
    /\ shared_files[d].chunks[chunk_index + 1] = chunk_hash

\* C34: a chunk arrival whose index is not below the chunk count, or whose
\* digest is not the manifest's digest at that index, for every session,
\* leaves every session and every progress entry unchanged and assembles
\* nothing.
C34_ForeignChunkChangesNothing ==
    [][(/\ last'.op = "chunk_received"
        /\ \A d \in DOMAIN downloading_files :
               ~InManifest(d, arrival'.chunk_hash, arrival'.chunk_index)) =>
           UNCHANGED <<downloading_files, active_transfers, assembled, disk>>]_vars

\* A chunk arrived with an index in range for a session that lacks it, under
\* a digest of another place, and was ignored.
C34_Witness ==
    /\ last.op = "chunk_received"
    /\ last.res = "ignored"
    /\ \E d \in DOMAIN downloading_files :
           /\ arrival.chunk_index < downloading_files[d].chunks_expected
           /\ arrival.chunk_index \notin downloading_files[d].chunks_received
           /\ arrival.chunk_hash \in Range(shared_files[d].chunks)
           /\ ~InManifest(d, arrival.chunk_hash, arrival.chunk_index)

\* The digest of the file without content.
EmptyFileHash == calculate_file_hash(<<>>)

\* C35: a download of a shared file with zero chunks is Completed, with an
\* empty file at the output path, once download_file has returned: the
\* session is complete from its creation and no chunk is left to wait for.
C35_EmptyFileCompletes ==
    (last.op = "download_file" /\ last.d = EmptyFileHash) =>
        /\ active_transfers[last.d].status = "Completed"
        /\ "out.bin" \in DOMAIN disk
        /\ disk["out.bin"] = <<>>

----------------------------------------------------------------------------
(* The locks of FileTransfer under concurrent calls.                        *)
(* SpecLocks keeps of each call only what the locks see.  The three RwLocks *)
(* are tokio's: a task that waits for one is suspended and its worker       *)
(* thread runs other tasks.  shared_files and file_chunks are DashMaps: a   *)
(* Ref returned by get holds the read lock of the entry's shard until it    *)
(* is dropped, and insert takes the shard's write lock by blocking the      *)
(* calling thread.  All calls concern one file, hence one shard of each     *)
(* map; the file has one chunk and a peer is listed for it or not.  A task  *)
(* runs without interruption from one suspension to the next.  Workers      *)
(* stands for the worker threads of the runtime (one per core under         *)
(* #[tokio::main], one under #[tokio::test]), scaled down.                  *)

Workers == 2

\* download_file holds `file` (line 134) to the end of its `if let` block;
\* request_chunks (line 201) and the handler (line 255) hold theirs inside it.
HoldsManifestRef(t) ==
    task[t].pc \in {"d_session", "d_progress", "h_session", "h_progress", "h_write"}

\* request_chunk_from_peer holds `chunk` (line 223) across the handler call.
HoldsChunkRef(t) == task[t].pc \in {"h_session", "h_progress", "h_write"}

\* The handler's write guard of downloading_files (line 245).
HoldsSessions(t) == task[t].pc \in {"h_progress", "h_write"}

\* The handler's write guard of active_transfers (line 261), held across
\* assemble_file.
HoldsProgress(t) == task[t].pc = "h_write"

ManifestRefHeld == \E t \in Tasks : HoldsManifestRef(t)

ChunkRefHeld == \E t \in Tasks : HoldsChunkRef(t)

SessionsHeld == \E t \in Tasks : HoldsSessions(t)

ProgressHeld == \E t \in Tasks : HoldsProgress(t)

\* A thread is blocked in DashMap::insert (lines 106, 297).
Blocked(t) == task[t].pc \in {"s_chunks", "s_announce"}

FreeWorker == Cardinality({t \in Tasks : Blocked(t)}) < Workers

\* share_file from a statement on, to where it next waits (lines 104-127).
ShareFrom(stage) ==
    LET progress == IF ProgressHeld THEN "s_progress" ELSE "idle"
        announce == IF ManifestRefHeld THEN "s_announce" ELSE progress
        chunks == IF ChunkRefHeld THEN "s_chunks" ELSE announce
    IN CASE stage = "chunks" -> chunks
         [] stage = "announce" -> announce
         [] stage = "progress" -> progress

\* download_file from a statement on, to where it next waits (lines
\* 134-159, 201-213, 223-225, 245-267).
DownloadFrom(stage, listed) ==
    LET h_write == "h_write"
        h_progress == IF ProgressHeld THEN "h_progress" ELSE h_write
        h_session == IF SessionsHeld THEN "h_session" ELSE h_progress
        request == IF listed THEN h_session ELSE "idle"
        progress == IF ProgressHeld THEN "d_progress" ELSE request
        session == IF SessionsHeld THEN "d_session" ELSE progress
    IN CASE stage = "session" -> session
         [] stage = "progress" -> progress
         [] stage = "request" -> request
         [] stage = "h_progress" -> h_progress
         [] stage = "h_write" -> h_write

\* What a suspended task waits for has come.
Ready(t) ==
    CASE task[t].pc \in {"spawned", "s_read", "h_write"} -> TRUE
      [] task[t].pc \in {"d_session", "h_session"} -> ~SessionsHeld
      [] task[t].pc \in {"s_progress", "d_progress", "h_progress", "g_read"} ->
             ~ProgressHeld
      [] OTHER -> FALSE

\* A worker polls the task, which runs to its next wait or to its return.
CanResume(t) == Ready(t) /\ FreeWorker

Resumed(t) ==
    LET pc == task[t].pc
        op == task[t].op
    IN CASE pc = "spawned" /\ op = "share_file" -> "s_read"
         [] pc = "spawned" /\ op = "download_file" ->
                DownloadFrom("session", task[t].listed)
         [] pc = "spawned" /\ op = "get_transfer_progress" ->
                IF ProgressHeld THEN "g_read" ELSE "idle"
         [] pc = "s_read" -> ShareFrom("chunks")
         [] pc = "d_session" -> DownloadFrom("progress", task[t].listed)
         [] pc = "d_progress" -> DownloadFrom("request", task[t].listed)
         [] pc = "h_session" -> DownloadFrom("h_progress", task[t].listed)
         [] pc = "h_progress" -> DownloadFrom("h_write", task[t].listed)
         [] OTHER -> "idle"

Resume(t) ==
    /\ CanResume(t)
    /\ task' = [task EXCEPT ![t].pc = Resumed(t)]

\* The shard a blocked insert waits for has no Ref left: the insert is done
\* and share_file goes on, on its own thread.
CanUnblock(t) ==
    \/ task[t].pc = "s_chunks" /\ ~ChunkRefHeld
    \/ task[t].pc = "s_announce" /\ ~ManifestRefHeld

Unblock(t) ==
    /\ CanUnblock(t)
    /\ task' = [task EXCEPT ![t].pc =
                   IF task[t].pc = "s_chunks" THEN ShareFrom("announce")
                   ELSE ShareFrom("progress")]

\* A call is made: its future is handed to the runtime.
Spawn(t, op, listed) ==
    /\ task[t].pc = "idle"
    /\ task' = [task EXCEPT ![t] = [pc |-> "spawned", op |-> op, listed |-> listed]]

CallShareFile ==
    /\ \E t \in Tasks : Spawn(t, "share_file", FALSE)
    /\ UNCHANGED <<transferVars, observeVars, errorVars, signalVars, deliveryVars>>

CallDownloadFile ==
    /\ \E t \in Tasks, listed \in BOOLEAN : Spawn(t, "download_file", listed)
    /\ UNCHANGED <<transferVars, observeVars, errorVars, signalVars, deliveryVars>>

CallGetTransferProgress ==
    /\ \E t \in Tasks : Spawn(t, "get_transfer_progress", FALSE)
    /\ UNCHANGED <<transferVars, observeVars, errorVars, signalVars, deliveryVars>>

TaskResumes ==
    /\ \E t \in Tasks : Resume(t)
    /\ UNCHANGED <<transferVars, observeVars, errorVars, signalVars, deliveryVars>>

TaskUnblocks ==
    /\ \E t \in Tasks : Unblock(t)
    /\ UNCHANGED <<transferVars, observeVars, errorVars, signalVars, deliveryVars>>

NextLocks ==
    \/ CallShareFile
    \/ CallDownloadFile
    \/ CallGetTransferProgress
    \/ TaskResumes
    \/ TaskUnblocks

SpecLocks == Init /\ [][NextLocks]_vars

\* C36: no interleaving of share_file, download_file (with its chunk
\* arrivals) and get_transfer_progress calls deadlocks: while a call is in
\* progress, some call in progress can take its next step.
C36_NoDeadlock ==
    (\E t \in Tasks : task[t].pc # "idle") =>
        \E t \in Tasks : CanResume(t) \/ CanUnblock(t)

----------------------------------------------------------------------------
(* The pending lists of the SignalingServer, with two addressees.           *)
(* SpecPending runs the send methods and get_pending_messages for the peers *)
(* of Addressees; sent_since keeps, for each of them, the messages          *)
(* send_message stored since the last get_pending_messages for it, and      *)
(* delivered what the last get_pending_messages call returned.  Nothing     *)
(* reads message_rx, as in the program: the channel takes ChannelCapacity   *)
(* messages in all.                                                         *)

OfferTo ==
    /\ \E c \in Callers, to \in Addressees : send_offer(c, to)
    /\ UNCHANGED <<transferVars, observeVars, errorVars, lockVars, deliveryVars>>

AnswerTo ==
    /\ \E c \in Callers, to \in Addressees : send_answer(c, to)
    /\ UNCHANGED <<transferVars, observeVars, errorVars, lockVars, deliveryVars>>

IceCandidateTo ==
    /\ \E c \in Callers, to \in Addressees : send_ice_candidate(c, to)
    /\ UNCHANGED <<transferVars, observeVars, errorVars, lockVars, deliveryVars>>

\* send_message stores the message (signalling.rs:252-256).
Stored(c) ==
    /\ PushPending(c)
    /\ sent_since' = [sent_since EXCEPT ![sender[c].to] = Append(@, sender[c].message)]
    /\ UNCHANGED delivered

\* send_message queues the message and returns (signalling.rs:259-266).
Queued(c) ==
    /\ ChannelSend(c)
    /\ UNCHANGED deliveryVars

SendMessageStep ==
    /\ \E c \in Callers : Stored(c) \/ Queued(c)
    /\ UNCHANGED <<transferVars, observeVars, errorVars, lockVars>>

\* A call of get_pending_messages and the vector it returns.
TakePending ==
    /\ \E peer_id \in Addressees :
           /\ get_pending_messages(peer_id)
           /\ delivered' = [peer_id |-> peer_id, messages |-> Removed(peer_id),
                            turn |-> 1 - delivered.turn]
           /\ sent_since' = [sent_since EXCEPT ![peer_id] = <<>>]
    /\ UNCHANGED <<transferVars, observeVars, errorVars, lockVars>>

NextPending ==
    \/ OfferTo
    \/ AnswerTo
    \/ IceCandidateTo
    \/ SendMessageStep
    \/ TakePending

SpecPending == Init /\ [][NextPending]_vars

\* The pending list of a peer, empty when the map has no entry for it.
PendingOf(pending, peer_id) ==
    IF peer_id \in DOMAIN pending THEN pending[peer_id] ELSE <<>>

\* C39: a call of get_pending_messages(p) returns exactly the messages
\* stored for p since the previous call for p, in the order they were sent;
\* it removes them, so that a call that follows with nothing sent to p in
\* between returns the empty list; and it leaves the pending messages of
\* every other peer as they were.
C39_PendingDeliveredOnceInOrder ==
    [][delivered'.turn # delivered.turn =>
          LET p == delivered'.peer_id
          IN /\ delivered'.messages = sent_since[p]
             /\ p \notin DOMAIN pending_messages'
             /\ (delivered.peer_id = p /\ sent_since[p] = <<>>) =>
                    delivered'.messages = <<>>
             /\ \A q \in Addressees \ {p} :
                    /\ q \in DOMAIN pending_messages' <=> q \in DOMAIN pending_messages
                    /\ PendingOf(pending_messages', q) = PendingOf(pending_messages, q)
             /\ \A q \in Addressees :
                    PendingOf(pending_messages', q) = sent_since'[q]]_vars

\* An offer and then an answer for peer2 have been returned in this order
\* while an offer for peer3 is still pending.
C39_Witness ==
    /\ delivered.peer_id = "peer2"
    /\ delivered.messages = <<SignalingMessage("Offer", "peer2"),
                              SignalingMessage("Answer", "peer2")>>
    /\ "peer2" \notin DOMAIN pending_messages
    /\ "peer3" \in DOMAIN pending_messages
    /\ pending_messages["peer3"] = <<SignalingMessage("Offer", "peer3")>>

====
